---- MODULE Spec2Model ----
(***************************************************************************)
(* Payment-request lifecycle of the kiosk client: the payment store        *)
(* (src/stores/payment.ts) and the payment screen that drives it           *)
(* (src/app/payment.tsx).                                                  *)
(*                                                                         *)
(* Conventions.  An absent id (null) is 0: the server's ids are positive   *)
(* and the code tests ids by truthiness.  An absent string is NULL.        *)
(***************************************************************************)
EXTENDS Integers, Sequences, FiniteSets, TLC

VARIABLES
    store,      \* the state of usePaymentStore
    ui,         \* the payment screen: its React state, refs, timers, sockets and calls in flight
    last        \* history: the store operation that ran last, its input and the store before it

vars == <<store, ui, last>>

----------------------------------------------------------------------------
(* Bounds of the model *)

\* decrementTimer is explored in the last MaxTick seconds of the window
MaxTick == 3
\* a run of consecutive decrementTimer calls is followed for MaxCalls calls
MaxCalls == 5
\* order ids are 1..MaxOrder
MaxOrder == 1
\* request ids are 1..MaxRequest
MaxRequest == 2
\* sockets of the payment screen that are not closed, at one time
MaxSockets == 3
\* cancel-order calls in flight at one time
MaxCancel == 2
\* the history counts up to MaxCounted
MaxCounted == 2
\* orders placed from the catalog after the first one
MaxPlaced == 1
\* product ids are 1..MaxProduct, quantities are explored up to MaxQuantity
MaxProduct == 3
MaxQuantity == 3

----------------------------------------------------------------------------
(* Values *)

NULL == "NULL"

Statuses == {"PENDING", "COMPLETED", "FAILED", "EXPIRED"}
Terminal == {"COMPLETED", "FAILED", "EXPIRED"}
Methods == {"QR_CODE", "STUDENT_ID"}
Orders == 1..MaxOrder
Requests == 1..MaxRequest
\* the ids the server gives to orders placed later: ids are not used twice
NewOrders == (MaxOrder + 1)..(MaxOrder + MaxPlaced)
\* the request code is opaque; "" is the code bound when the response has no token
Codes == {"", "abc"}
\* expiresAt strings: the empty string, a string Date cannot parse, a timestamp
ExpiresAts == {"", "not-a-date", "t"}
\* expiryTime - currentTime in milliseconds, for a timestamp
DiffMs == {-5000, 2999, 10000, 1800000}
\* what the clock and an expiresAt string give: <<expiresAt, expiryTime - currentTime>>
\* (the difference is read only for a timestamp)
Expiries == {<<"", 0>>, <<"not-a-date", 0>>} \cup {<<"t", d>> : d \in DiffMs}

Min(a, b) == IF a < b THEN a ELSE b
Max(a, b) == IF a > b THEN a ELSE b

DEFAULT_TIMER == 900

----------------------------------------------------------------------------
(* The payment store *)

InitialStore ==
    [orderId |-> 0, requestId |-> 0, requestCode |-> NULL, requestMethod |-> NULL,
     expiresAt |-> NULL, timer |-> DEFAULT_TIMER, isActive |-> FALSE, status |-> NULL]

\* mutant: the request of the session before is kept
createPayment_keepsRequest(s, orderId) ==
    [s EXCEPT !.orderId = orderId, !.timer = DEFAULT_TIMER, !.isActive = TRUE,
              !.status = "PENDING"]

createPayment(s, orderId) ==
    [orderId |-> orderId, timer |-> DEFAULT_TIMER, isActive |-> TRUE, status |-> "PENDING",
     requestId |-> 0, requestCode |-> NULL, requestMethod |-> NULL, expiresAt |-> NULL]

\* Math.max(0, Math.floor((expiryTime - currentTime) / 1000))
timeLeftInSeconds(diffMs) == Max(0, diffMs \div 1000)

\* mutant: the tighter bound is ignored and the request's own window is taken
updatedTimer_takesExpiry(timer, expiresAt, diffMs) ==
    IF expiresAt = "" THEN timer
    ELSE IF expiresAt = "not-a-date" THEN timer
    ELSE timeLeftInSeconds(diffMs)

\* the timer setPaymentRequest stores.  An empty expiresAt skips the block; an
\* unparseable one makes timeLeftInSeconds NaN, and NaN < timer is false.
updatedTimer(timer, expiresAt, diffMs) ==
    IF expiresAt = "" THEN timer
    ELSE IF expiresAt = "not-a-date" THEN timer
    ELSE IF timeLeftInSeconds(diffMs) < timer THEN timeLeftInSeconds(diffMs)
    ELSE timer

\* mutant: the window of the new request replaces the timer
setPaymentRequest_newWindow(s, requestId, requestCode, status, requestMethod, expiresAt, diffMs) ==
    [s EXCEPT !.requestId = requestId, !.requestCode = requestCode, !.status = status,
              !.requestMethod = requestMethod, !.expiresAt = expiresAt,
              !.isActive = (status = "PENDING"),
              !.timer = IF expiresAt = "t" THEN timeLeftInSeconds(diffMs) ELSE s.timer]

setPaymentRequest(s, requestId, requestCode, status, requestMethod, expiresAt, diffMs) ==
    [s EXCEPT !.requestId = requestId, !.requestCode = requestCode, !.status = status,
              !.requestMethod = requestMethod, !.expiresAt = expiresAt,
              !.isActive = (status = "PENDING"),
              !.timer = updatedTimer(s.timer, expiresAt, diffMs)]

\* mutant: the status is stored and the active flag is left as it was
setStatus_keepsActive(s, status) ==
    [s EXCEPT !.status = status]

setStatus(s, status) ==
    [s EXCEPT !.status = status, !.isActive = (status = "PENDING")]

\* mutant: the expiry test is off by one (timer < 0)
decrementTimer_offByOne(s) ==
    IF s.timer < 0 THEN [s EXCEPT !.isActive = FALSE, !.status = "EXPIRED"]
    ELSE IF s.status = "PENDING" THEN [s EXCEPT !.timer = s.timer - 1]
    ELSE s

decrementTimer(s) ==
    IF s.timer <= 0 THEN [s EXCEPT !.isActive = FALSE, !.status = "EXPIRED"]
    ELSE IF s.status = "PENDING" THEN [s EXCEPT !.timer = s.timer - 1]
    ELSE s

\* mutant: the timer is left where the session stopped
resetPayment_keepsTimer(s) == [InitialStore EXCEPT !.timer = s.timer]

resetPayment(s) == InitialStore

\* mutant: the window starts over
resetPaymentRequest_fullWindow(s) ==
    [orderId |-> s.orderId, requestId |-> 0, requestCode |-> NULL, requestMethod |-> NULL,
     expiresAt |-> NULL, timer |-> DEFAULT_TIMER, isActive |-> TRUE, status |-> "PENDING"]

resetPaymentRequest(s) ==
    [orderId |-> s.orderId, requestId |-> 0, requestCode |-> NULL, requestMethod |-> NULL,
     expiresAt |-> NULL, timer |-> s.timer, isActive |-> TRUE, status |-> "PENDING"]

cancelPayment(s) ==
    [s EXCEPT !.isActive = FALSE, !.status = "EXPIRED"]

\* the test of onRehydrateStorage: the persisted session is not worth keeping
Stale(s) == ~s.isActive \/ s.status # "PENDING" \/ s.timer <= 0

\* persist: the persisted fields are merged into the store
rehydrate(s, persisted) == persisted

----------------------------------------------------------------------------
(* The payment screen (src/app/payment.tsx)                                *)
(*                                                                         *)
(* A state of the screen is a record w = [s |-> the store, u |-> the       *)
(* screen]; a handler is an operator from w to w.  React renders after a   *)
(* state change (u.dirty) and runs the effects then: Render is a step of   *)
(* its own, and timer, socket and network callbacks interleave with it.    *)
(* Every effect runs on every render: handleCancel depends on the object   *)
(* useMutation returns, which is a new object on each render, and          *)
(* connectWebSocket and createQrPaymentRequest depend on such objects too. *)
(***************************************************************************)

WS_RECONNECT_DELAY == 3000
MAX_RECONNECT_ATTEMPTS == 3
\* the cap of the reconnect delay, in milliseconds
MAX_RECONNECT_DELAY == 10000

WsStatuses == {"CONNECTING", "CONNECTED", "DISCONNECTED", "FAILED"}
\* WebSocket.readyState
ReadyStates == {"CONNECTING", "OPEN", "CLOSING", "CLOSED"}
\* data.status of a frame; "garbage" is a frame JSON.parse throws on
Frames == {"COMPLETED", "FAILED", "EXPIRED", "PENDING", "UNKNOWN", "garbage"}
\* what the screen shows after a failed creation call: no code, a code with
\* the retry action, a code with the return-to-catalog action
ErrorKinds == {"nocode", "retry", "return"}
\* expiryTime - currentTime of the responses the screen receives
ScreenDiffMs == {-5000, 1999, 900000}

NoTimeout == [pending |-> FALSE, rid |-> 0, ws |-> "DISCONNECTED", delay |-> 0]
\* a socket that was never created, or one whose close event was delivered
\* (nothing of it is read again: it is kept as CLOSED, its address forgotten)
NoSocket == [state |-> "CLOSED", rid |-> 0]
SocketIds == 1..MaxSockets
IdleCall == [cur |-> FALSE, old |-> 0]

UiInit ==
    [mounted |-> TRUE, dirty |-> TRUE, route |-> "payment", nav |-> "none",
     selectedMethod |-> "QR_CODE", error |-> "none",
     wsStatus |-> "DISCONNECTED", wsReconnectAttempts |-> 0,
     sockets |-> [i \in SocketIds |-> NoSocket], webSocket |-> 0,
     \* timerIntervalRef holds an interval; the intervals that exist
     timerInterval |-> FALSE, intervals |-> 0, wsReconnectTimeout |-> NoTimeout, connectTimeout |-> NoTimeout,
     cancel |-> IdleCall, qr |-> IdleCall, student |-> IdleCall,
     \* the cart holds items; the auto-redirect timeout of the completion screen
     cart |-> TRUE, autoRedirectTimer |-> FALSE,
     \* the lines of the cart (name and price left out): one of product 1
     items |-> <<[id |-> 1, quantity |-> 1]>>,
     \* the order creation call of the catalog is in flight
     order |-> FALSE,
     \* useAuthStore of a signed-in kiosk; the HTTP calls awaiting a response
     auth |-> [token |-> "jwt", authenticated |-> TRUE, loading |-> FALSE, error |-> NULL],
     http |-> {},
     \* the timeout onRehydrateStorage sets is pending
     rehydrateTimeout |-> FALSE,
     \* history: what the step just taken was, where a property asks for it
     event |-> "none",
     \* history: the cancel calls the countdown effect issued; whether a socket
     \* closed abnormally since the last open, tap or change of requestId, and
     \* the sockets the screen created by itself since that close
     countdownCancels |-> 0, dropped |-> FALSE, reconnects |-> 0]

World == [s |-> store, u |-> ui]

\* usePaymentStore() subscribes the screen to the whole store: a set() renders it
StoreSet(w, s) == [w EXCEPT !.s = s, !.u.dirty = @ \/ w.u.mounted]

\* setWsStatus: no render when the value is the one held; nothing on an unmounted screen
setWsStatus(w, v) ==
    IF ~w.u.mounted THEN w
    ELSE [w EXCEPT !.u.wsStatus = v, !.u.dirty = @ \/ (w.u.wsStatus # v)]

\* router.replace(target)
replace(w, target) == [w EXCEPT !.u.nav = target]

\* router.push("/products")
push(w) == [w EXCEPT !.u.nav = "push"]

\* whether the cart has a line of product id
InCart(items, id) == \E i \in DOMAIN items : items[i].id = id

\* mutant: a line is appended whether or not the product has one
addItem_appends(items, id) == Append(items, [id |-> id, quantity |-> 1])

\* useCartStore addItem
addItem(items, id) ==
    IF InCart(items, id)
    THEN [i \in DOMAIN items |->
            IF items[i].id = id THEN [items[i] EXCEPT !.quantity = @ + 1] ELSE items[i]]
    ELSE Append(items, [id |-> id, quantity |-> 1])

\* the lines of products other than id, in their order
RECURSIVE Without(_, _)
Without(items, id) ==
    IF items = <<>> THEN <<>>
    ELSE IF Head(items).id = id THEN Without(Tail(items), id)
    ELSE <<Head(items)>> \o Without(Tail(items), id)

\* useCartStore updateQuantity
updateQuantity(items, id, quantity) ==
    IF quantity <= 0 THEN Without(items, id)
    ELSE [i \in DOMAIN items |->
            IF items[i].id = id THEN [items[i] EXCEPT !.quantity = quantity] ELSE items[i]]

\* useCartStore clearCart
clearCart(w) == [w EXCEPT !.u.cart = FALSE, !.u.items = <<>>]

\* useMutation(...).mutate(): the call goes out and the observer follows it; a
\* call still in flight is superseded, and its callbacks still run
mutate(call) == [cur |-> TRUE, old |-> call.old + (IF call.cur THEN 1 ELSE 0)]

\* the calls in flight
Calls(call) == call.old + (IF call.cur THEN 1 ELSE 0)

\* handleCancel(): cancelOrderMutation.mutate()
handleCancel(w) ==
    [w EXCEPT !.u.cancel = mutate(@), !.u.dirty = @ \/ w.u.mounted]

\* WebSocket.close()
close(sockets, i) ==
    IF sockets[i].state \in {"CONNECTING", "OPEN"}
    THEN [sockets EXCEPT ![i].state = "CLOSING"]
    ELSE sockets

\* the place a new socket takes: the first one no socket holds
FreeSocket(u) ==
    CHOOSE i \in SocketIds :
        /\ u.sockets[i] = NoSocket
        /\ \A j \in SocketIds : u.sockets[j] = NoSocket => i <= j

\* new WebSocket(wsUrl) for requestId rid, kept in webSocketRef
newWebSocket(w, rid) ==
    [w EXCEPT !.u.sockets[FreeSocket(w.u)] = [state |-> "CONNECTING", rid |-> rid],
              !.u.webSocket = FreeSocket(w.u)]

\* the close event reaches socket i; a webSocketRef that holds a closed socket
\* is read as no socket (close() on it does nothing)
closed(w, i) ==
    [w EXCEPT !.u.sockets[i] = NoSocket,
              !.u.webSocket = IF @ = i THEN 0 ELSE @]

\* mutant: the prior socket is left as it is
connectWebSocket_keepsPrior(w, c) ==
    IF c.rid = 0 THEN w
    ELSE IF c.ws \in {"CONNECTING", "CONNECTED"} THEN w
    ELSE newWebSocket(setWsStatus(w, "CONNECTING"), c.rid)

\* connectWebSocket of the render that saw requestId = c.rid and wsStatus = c.ws.
\* The handlers of the socket it creates are closures of that render as well.
connectWebSocket(w, c) ==
    IF c.rid = 0 THEN w
    ELSE IF c.ws \in {"CONNECTING", "CONNECTED"} THEN w
    ELSE LET w1 == setWsStatus(w, "CONNECTING")
             prior == w1.u.webSocket
             w2 == IF prior # 0 /\ w1.u.sockets[prior].state # "CLOSED"
                   THEN [w1 EXCEPT !.u.sockets = close(@, prior)]
                   ELSE w1
         IN  newWebSocket(w2, c.rid)

\* whether connectWebSocket creates a socket
Connects(c) == c.rid # 0 /\ c.ws \notin {"CONNECTING", "CONNECTED"}

\* mutant: the attempts made so far stay counted
onopen_keepsCounter(w) == setWsStatus(w, "CONNECTED")

\* ws.onopen
onopen(w) ==
    [setWsStatus(w, "CONNECTED") EXCEPT !.u.wsReconnectAttempts = 0]

\* mutant: every frame that is neither COMPLETED nor FAILED is taken as EXPIRED
onmessage_elseExpired(w, frame) ==
    IF frame = "COMPLETED" THEN StoreSet(w, setStatus(w.s, "COMPLETED"))
    ELSE IF frame = "FAILED" THEN StoreSet(w, setStatus(w.s, "FAILED"))
    ELSE handleCancel(StoreSet(w, setStatus(w.s, "EXPIRED")))

\* mutant: EXPIRED is stored like FAILED, without the cancel call
onmessage_expiredStored(w, frame) ==
    IF frame \in {"COMPLETED", "FAILED", "EXPIRED"} THEN StoreSet(w, setStatus(w.s, frame))
    ELSE w

\* ws.onmessage; showNotification is not modelled
onmessage(w, frame) ==
    IF frame = "COMPLETED" THEN StoreSet(w, setStatus(w.s, "COMPLETED"))
    ELSE IF frame = "FAILED" THEN StoreSet(w, setStatus(w.s, "FAILED"))
    ELSE IF frame = "EXPIRED" THEN handleCancel(StoreSet(w, setStatus(w.s, "EXPIRED")))
    ELSE w

\* ws.onerror
onerror(w) == setWsStatus(w, "FAILED")

\* mutant: the delay does not grow with the attempts
reconnectDelay_flat(attempts) ==
    Min(WS_RECONNECT_DELAY, MAX_RECONNECT_DELAY)

reconnectDelay(attempts) ==
    Min(WS_RECONNECT_DELAY * (attempts + 1), MAX_RECONNECT_DELAY)

\* the closure of the handlers of a socket created for requestId rid: the
\* connectWebSocket that created it passed its test of wsStatus, so the wsStatus
\* it holds is DISCONNECTED or FAILED, which the test does not tell apart
Closure(rid) == [rid |-> rid, ws |-> "DISCONNECTED"]

\* ws.onclose of a socket whose closure is c
onclose(w, c, wasClean) ==
    IF wasClean THEN w
    ELSE LET w1 == setWsStatus(w, "DISCONNECTED")
         IN  IF w1.u.wsReconnectAttempts < MAX_RECONNECT_ATTEMPTS /\ c.rid # 0
             THEN [w1 EXCEPT !.u.wsReconnectTimeout =
                      [pending |-> TRUE, rid |-> c.rid, ws |-> c.ws,
                       delay |-> reconnectDelay(w1.u.wsReconnectAttempts)]]
             ELSE setWsStatus(w1, "FAILED")

\* the callback of the reconnect timeout
reconnect(w, c) ==
    connectWebSocket([w EXCEPT !.u.wsReconnectAttempts = @ + 1,
                               !.u.wsReconnectTimeout = NoTimeout], c)

\* handleReconnectWebSocket, with the connectWebSocket of the render on screen
handleReconnectWebSocket(w) ==
    connectWebSocket([w EXCEPT !.u.wsReconnectAttempts = 0],
                     [rid |-> w.s.requestId, ws |-> w.u.wsStatus])

\* mutant: the ref is emptied and the interval it held is left running
clearTimerInterval_leaks(w) == [w EXCEPT !.u.timerInterval = FALSE]

\* if (timerIntervalRef.current) clearInterval(timerIntervalRef.current), the
\* ref being emptied or overwritten next
clearTimerInterval(w) ==
    [w EXCEPT !.u.intervals = IF w.u.timerInterval THEN @ - 1 ELSE @,
              !.u.timerInterval = FALSE]

\* timerIntervalRef.current = setInterval(decrementTimer, 1000), the interval
\* the ref held being cleared first
setTimerInterval(w) ==
    [clearTimerInterval(w) EXCEPT !.u.intervals = @ + 1, !.u.timerInterval = TRUE]

\* mutant: at zero the effect calls nothing
countdownEffect_noCancel(w, v) ==
    LET w1 == IF v.s.isActive /\ v.s.timer > 0 THEN setTimerInterval(w)
              ELSE w
    IN  IF v.s.status = "COMPLETED" THEN replace(w1, "complete") ELSE w1

\* the countdown effect
countdownEffect(w, v) ==
    LET w1 == IF v.s.isActive /\ v.s.timer > 0 THEN setTimerInterval(w)
              ELSE IF v.s.timer <= 0 /\ v.s.isActive
                   THEN [handleCancel(w) EXCEPT !.u.countdownCancels = Min(@ + 1, MaxCounted)]
                   ELSE w
    IN  IF v.s.status = "COMPLETED" THEN replace(w1, "complete") ELSE w1

\* the channel effect
channelEffect(w, v) ==
    IF v.s.requestId # 0 /\ v.u.wsStatus # "CONNECTED"
    THEN [w EXCEPT !.u.connectTimeout =
            [pending |-> TRUE, rid |-> v.s.requestId, ws |-> v.u.wsStatus, delay |-> 0]]
    ELSE IF v.s.requestId = 0
    THEN LET w1 == setWsStatus(w, "DISCONNECTED")
             w2 == IF w1.u.webSocket # 0
                   THEN [w1 EXCEPT !.u.sockets = close(@, w1.u.webSocket)]
                   ELSE w1
         IN  [w2 EXCEPT !.u.wsReconnectTimeout = NoTimeout]
    ELSE w

\* a request code the code takes for present
Truthy(code) == code # NULL /\ code # ""

\* the effect that creates the QR request
qrEffect(w, v) ==
    IF /\ v.u.selectedMethod = "QR_CODE"
       /\ v.s.orderId # 0
       /\ ~Truthy(v.s.requestCode)
       /\ ~v.u.qr.cur
    THEN [w EXCEPT !.u.qr = mutate(@), !.u.dirty = TRUE]
    ELSE w

\* a render of the mounted screen: the cleanups of the effects of the render
\* before, then the effects in the order of the source
render(w) ==
    LET w0 == [clearTimerInterval(w) EXCEPT !.u.dirty = FALSE,
                        !.u.connectTimeout = NoTimeout]
    IN  qrEffect(channelEffect(countdownEffect(w0, w), w), w)

\* the cleanups that run when the screen unmounts
unmount(w) ==
    LET w1 == [clearTimerInterval(w) EXCEPT
                        !.u.wsReconnectTimeout = NoTimeout,
                        !.u.connectTimeout = NoTimeout,
                        !.u.mounted = FALSE, !.u.dirty = FALSE]
    IN  IF w1.u.webSocket # 0
        THEN [w1 EXCEPT !.u.sockets = close(@, w1.u.webSocket)]
        ELSE w1

\* cancelOrderMutation.onSettled
cancelSettled(w) ==
    replace(clearCart(StoreSet(w, cancelPayment(w.s))), "products")

\* a payment screen mounts: state and refs at their initial values; the calls
\* an earlier screen left in flight belong to no observer of this one, and
\* their callbacks still run
mountPayment(w) ==
    [w EXCEPT !.u.mounted = TRUE, !.u.dirty = TRUE,
              !.u.selectedMethod = "QR_CODE", !.u.error = "none",
              !.u.wsStatus = "DISCONNECTED", !.u.wsReconnectAttempts = 0,
              !.u.webSocket = 0, !.u.timerInterval = FALSE,
              !.u.wsReconnectTimeout = NoTimeout, !.u.connectTimeout = NoTimeout,
              !.u.cancel = [cur |-> FALSE, old |-> Calls(@)],
              !.u.qr = [cur |-> FALSE, old |-> Calls(@)],
              !.u.student = [cur |-> FALSE, old |-> Calls(@)]]

\* handlePayment of the catalog: orderMutation.mutate(orderRequest)
handlePayment(w) ==
    IF ~w.u.cart THEN w ELSE [w EXCEPT !.u.order = TRUE]

\* orderMutation.onSuccess, the response carrying the id of the new order
orderSuccess(w, id) ==
    [StoreSet(w, createPayment(w.s, id)) EXCEPT !.u.order = FALSE, !.u.nav = "payment"]

\* the return-to-catalog action of renderErrorAction
returnToCatalog(w) == replace(w, "products")

\* the completion screen mounts: its effect
mountComplete(w) ==
    IF w.s.orderId = 0 THEN replace(w, "products")
    ELSE [w EXCEPT !.u.autoRedirectTimer = TRUE]

\* handleGoToMenu of the completion screen; the render that follows finds
\* orderId absent, clears the timeout and replaces the route once more
handleGoToMenu(w) ==
    [replace(clearCart(StoreSet(w, resetPayment(w.s))), "products")
        EXCEPT !.u.autoRedirectTimer = FALSE]

\* how a cancel call settles: the server accepted it, the call failed, or
\* mutationFn found no orderId and resolved to null
CancelOutcomes == {"success", "error", "skipped"}

\* cancelOrderMutation.onError: showNotification, which is not modelled
cancelError(w) == w

\* mutant: a failed call skips the teardown
cancelCallbacks_unlessError(w, outcome) ==
    IF outcome = "error" THEN cancelError(w) ELSE cancelSettled(w)

\* the callbacks of a settled cancel call: onError on a failure, then onSettled
cancelCallbacks(w, outcome) ==
    cancelSettled(IF outcome = "error" THEN cancelError(w) ELSE w)

\* the statuses ws.onmessage acts on
HandledFrames == {"COMPLETED", "FAILED", "EXPIRED"}

\* qrPaymentMutation.onSuccess, the response carrying id, token and expiresAt
qrSuccess(w, id, token, diffMs) ==
    StoreSet(w, setPaymentRequest(w.s, id, token, "PENDING", "QR_CODE", "t", diffMs))

\* handleMethodChange past its test
handleMethodChange(w, method) ==
    StoreSet([w EXCEPT !.u.selectedMethod = method, !.u.error = "none"],
             resetPaymentRequest(w.s))

\* the error codes of a response: those of ERROR_MESSAGES and one that is not listed
ErrorCodes == {"ORDER_NOT_FOUND", "ORDER_NOT_PENDING", "USER_NOT_FOUND", "BOOTH_NOT_FOUND",
               "UNLISTED"}

\* the ways a creation call fails: no response at all (network, timeout), a
\* response whose body has no code, a response with a code
Failures ==
    {[response |-> FALSE, code |-> NULL]}
    \cup {[response |-> TRUE, code |-> c] : c \in ErrorCodes \cup {NULL}}

\* the code onError passes to setErrorCode
errorCodeOf(failure) == IF failure.response THEN failure.code ELSE NULL

\* renderErrorAction: what is shown beneath the message
renderErrorAction(errorCode) ==
    IF errorCode = NULL THEN "nocode"
    ELSE IF errorCode \in {"ORDER_NOT_PENDING", "ORDER_NOT_FOUND"} THEN "return"
    ELSE "retry"

\* onError of qrPaymentMutation and of studentIdPaymentMutation; showNotification
\* is not modelled, the message is set whenever the code is
onError(w, failure) ==
    IF w.u.mounted
    THEN [w EXCEPT !.u.error = renderErrorAction(errorCodeOf(failure)), !.u.dirty = TRUE]
    ELSE w

\* handleRetry
handleRetry(w) ==
    StoreSet([w EXCEPT !.u.error = "none"], resetPaymentRequest(w.s))

isSubmitting(u) == u.qr.cur \/ u.student.cur \/ u.cancel.cur

\* Strings are sequences of characters.
Digits == <<"0", "1", "2", "3", "4", "5", "6", "7", "8", "9">>

IsDigit(c) == \E n \in 1..10 : Digits[n] = c

DigitValue(c) == (CHOOSE n \in 1..10 : Digits[n] = c) - 1

\* a number of JavaScript: NaN, or an integer
NaN == [nan |-> TRUE, val |-> 0]
Number(n) == [nan |-> FALSE, val |-> n]

\* x >= n and x <= n of JavaScript: false on NaN
Geq(x, n) == ~x.nan /\ x.val >= n
Leq(x, n) == ~x.nan /\ x.val <= n

RECURSIVE TrimStart(_)
TrimStart(str) ==
    IF str # <<>> /\ Head(str) = " " THEN TrimStart(Tail(str)) ELSE str

RECURSIVE DigitPrefix(_)
DigitPrefix(str) ==
    IF str # <<>> /\ IsDigit(Head(str))
    THEN <<Head(str)>> \o DigitPrefix(Tail(str))
    ELSE <<>>

RECURSIVE Decimal(_)
Decimal(ds) ==
    IF ds = <<>> THEN 0
    ELSE Decimal(SubSeq(ds, 1, Len(ds) - 1)) * 10 + DigitValue(ds[Len(ds)])

\* parseInt(str, 10): leading white space is skipped, a sign is taken, then
\* the longest run of digits; what follows the digits is ignored
parseInt(str) ==
    LET t == TrimStart(str)
        signed == t # <<>> /\ Head(t) \in {"+", "-"}
        ds == DigitPrefix(IF signed THEN Tail(t) ELSE t)
    IN  IF ds = <<>> THEN NaN
        ELSE Number(IF signed /\ Head(t) = "-" THEN 0 - Decimal(ds) ELSE Decimal(ds))

validateStudentId(id) ==
    IF Len(id) # 4 THEN FALSE
    ELSE LET grade == parseInt(<<id[1]>>)
             room == parseInt(<<id[2]>>)
             number == parseInt(SubSeq(id, 3, Len(id)))
         IN  /\ Geq(grade, 1) /\ Leq(grade, 9)
             /\ Geq(room, 1) /\ Leq(room, 9)
             /\ Geq(number, 1) /\ Leq(number, 99)

\* mutant: the id is not validated
handleStudentIdSubmit_unchecked(w, studentId) ==
    [w EXCEPT !.u.student = mutate(@), !.u.dirty = @ \/ w.u.mounted]

\* handleStudentIdSubmit of a render whose studentId is studentId;
\* showNotification is not modelled
handleStudentIdSubmit(w, studentId) ==
    IF ~validateStudentId(studentId) THEN w
    ELSE [w EXCEPT !.u.student = mutate(@), !.u.dirty = @ \/ w.u.mounted]

\* studentIdPaymentMutation.onSuccess, the response carrying id, token and expiresAt
studentSuccess(w, id, token, diffMs) ==
    StoreSet(w, setPaymentRequest(w.s, id, token, "PENDING", "STUDENT_ID", "t", diffMs))

----------------------------------------------------------------------------
(* The store driven through its operations alone *)

\* what the history keeps of the store before the call
Before(s) == [timer |-> s.timer, status |-> s.status, isActive |-> s.isActive]

NoCall == [op |-> "none", arg |-> <<>>, prev |-> Before(InitialStore)]

\* the second within which a tick is explored
TickWindow(t) == t <= MaxTick

\* a run of consecutive decrementTimer calls that began on a PENDING session:
\* <<timer at its start, calls so far>>
TickRun ==
    IF last.op = "decrementTimer" /\ last.arg # <<>>
    THEN <<last.arg[1], last.arg[2] + 1>>
    ELSE IF store.status = "PENDING" THEN <<store.timer, 1>> ELSE <<>>

StoreInit ==
    /\ store = InitialStore
    /\ ui = UiInit
    /\ last = NoCall

CreatePayment ==
    \E o \in Orders :
        /\ store' = createPayment(store, o)
        /\ UNCHANGED ui
        /\ UNCHANGED ui
    /\ last' = [op |-> "createPayment", arg |-> <<o>>, prev |-> Before(store)]

SetPaymentRequest ==
    \E r \in Requests, c \in Codes, st \in Statuses, m \in Methods, x \in Expiries :
        /\ store' = setPaymentRequest(store, r, c, st, m, x[1], x[2])
        /\ UNCHANGED ui
        /\ UNCHANGED ui
    /\ last' = [op |-> "setPaymentRequest", arg |-> x, prev |-> Before(store)]

SetStatus ==
    \E st \in Statuses :
        /\ store' = setStatus(store, st)
        /\ UNCHANGED ui
        /\ UNCHANGED ui
    /\ last' = [op |-> "setStatus", arg |-> <<st>>, prev |-> Before(store)]

DecrementTimer ==
    /\ TickWindow(store.timer)
    /\ TickRun # <<>> => TickRun[2] <= MaxCalls
    /\ store' = decrementTimer(store)
    /\ UNCHANGED ui
    /\ last' = [op |-> "decrementTimer", arg |-> TickRun, prev |-> Before(store)]

ResetPayment ==
    /\ store' = resetPayment(store)
    /\ UNCHANGED ui
    /\ last' = [op |-> "resetPayment", arg |-> <<>>, prev |-> Before(store)]

ResetPaymentRequest ==
    /\ store' = resetPaymentRequest(store)
    /\ UNCHANGED ui
    /\ last' = [op |-> "resetPaymentRequest", arg |-> <<>>, prev |-> Before(store)]

CancelPayment ==
    /\ store' = cancelPayment(store)
    /\ UNCHANGED ui
    /\ last' = [op |-> "cancelPayment", arg |-> <<>>, prev |-> Before(store)]

StoreNext ==
    \/ CreatePayment
    \/ SetPaymentRequest
    \/ SetStatus
    \/ DecrementTimer
    \/ ResetPayment
    \/ ResetPaymentRequest
    \/ CancelPayment

StoreSpec == StoreInit /\ [][StoreNext]_vars

----------------------------------------------------------------------------
(* Cold start: the persisted session comes back from storage *)

\* what partialize can have written: the sessions the store takes on
PersistedSessions ==
    {InitialStore} \cup
    {[orderId |-> 1, requestId |-> r, requestCode |-> IF r = 0 THEN NULL ELSE "abc",
      requestMethod |-> IF r = 0 THEN NULL ELSE m,
      expiresAt |-> IF r = 0 THEN NULL ELSE "t",
      timer |-> tm, isActive |-> (st = "PENDING"), status |-> st] :
        r \in {0} \cup Requests, m \in Methods, tm \in {0, 1, DEFAULT_TIMER},
        st \in Statuses}

\* storage has answered: persist sets the store, then calls the function
\* onRehydrateStorage returned, which sets a timeout for a stale session
Rehydrate ==
    /\ last.op = "none"
    /\ \E persisted \in PersistedSessions :
        /\ store' = rehydrate(store, persisted)
        /\ ui' = [ui EXCEPT !.rehydrateTimeout = Stale(persisted)]
        /\ last' = [op |-> "rehydrate", arg |-> <<>>, prev |-> Before(store)]

\* the timeout fires: usePaymentStore.getState().resetPayment()
RehydrateTimeout ==
    /\ ui.rehydrateTimeout
    /\ store' = resetPayment(store)
    /\ ui' = [ui EXCEPT !.rehydrateTimeout = FALSE]
    /\ last' = [op |-> "resetPayment", arg |-> <<>>, prev |-> Before(store)]

\* a screen renders with usePaymentStore(): last.arg and last.prev are what it reads
ScreenReads ==
    /\ last.op # "none"
    /\ last' = [op |-> "read", arg |-> <<store.orderId, store.requestId>>,
                prev |-> Before(store)]
    /\ UNCHANGED <<store, ui>>

HydrateNext ==
    \/ Rehydrate
    \/ RehydrateTimeout
    \/ ScreenReads

HydrateSpec == StoreInit /\ [][HydrateNext]_vars

----------------------------------------------------------------------------
(* Properties of the store *)

\* C1: once status is terminal, a later setStatus with a terminal value,
\* decrementTimer or cancelPayment leaves status and isActive as they were.
C1_TerminalCallsAreNoOps ==
    ( /\ last.prev.status \in Terminal
      /\ \/ last.op = "setStatus" /\ last.arg[1] \in Terminal
         \/ last.op = "decrementTimer"
         \/ last.op = "cancelPayment" )
    => /\ store.status = last.prev.status
       /\ store.isActive = last.prev.isActive

\* C3: in every reachable state of the store, isActive is true exactly when
\* status is PENDING.
C3_ActiveIffPending ==
    store.isActive <=> (store.status = "PENDING")

\* C3 witness: a terminal session was re-armed by resetPaymentRequest and is active
C3_Witness ==
    /\ last.op = "resetPaymentRequest"
    /\ last.prev.status \in Terminal
    /\ store.isActive
    /\ store.status = "PENDING"

\* C8: no reachable state of the store has timer = 0 together with isActive
\* and status PENDING: reaching 0 forces EXPIRED and inactive.
C8_ZeroForcesExpired ==
    ~(store.timer = 0 /\ store.isActive /\ store.status = "PENDING")

\* C9: N consecutive decrementTimer calls on a session that was PENDING with
\* timer s leave timer = max(0, s - N), and the timer is never negative.
C9_TimerAfterNCalls ==
    /\ store.timer >= 0
    /\ (last.op = "decrementTimer" /\ last.arg # <<>>)
        => store.timer = Max(0, last.arg[1] - last.arg[2])

\* C9 witness: more calls than seconds were left, and the timer stopped at 0
C9_Witness ==
    /\ last.op = "decrementTimer"
    /\ last.arg # <<>>
    /\ last.arg[1] = 2
    /\ last.arg[2] = 4
    /\ store.timer = 0
    /\ store.status = "EXPIRED"

\* C10: setPaymentRequest with a timestamp sets timer to
\* min(previous timer, max(0, floor((expiresAt - now) / 1000))), and no
\* setPaymentRequest raises the timer above its previous value.
C10_TighterBoundWins ==
    last.op = "setPaymentRequest"
    => /\ store.timer <= last.prev.timer
       /\ last.arg[1] = "t"
           => \E q \in (last.arg[2] \div 1000 - 1)..(last.arg[2] \div 1000 + 1) :
                /\ q * 1000 <= last.arg[2]
                /\ last.arg[2] < (q + 1) * 1000
                /\ store.timer = Min(last.prev.timer, Max(0, q))

\* C10 witness: previous timer 900, expiresAt 10 seconds ahead, result 10
C10_Witness ==
    /\ last.op = "setPaymentRequest"
    /\ last.arg = <<"t", 10000>>
    /\ last.prev.timer = 900
    /\ store.timer = 10

----------------------------------------------------------------------------
(* The steps of the payment screen *)

StepAs(w, event) ==
    /\ store' = w.s
    /\ ui' = [w.u EXCEPT !.event = event]
    /\ UNCHANGED last

Step(w) == StepAs(w, "none")

\* history: a run of abnormal closes begins anew
NewRun(w) == [w EXCEPT !.u.dropped = FALSE, !.u.reconnects = 0]

\* history: a socket closed abnormally
Dropped(w) == [w EXCEPT !.u.dropped = TRUE]

\* history: connectWebSocket ran with closure c, not on a tap
Automatic(w, c) ==
    IF Connects(c) /\ w.u.dropped
    THEN [w EXCEPT !.u.reconnects = Min(@ + 1, MAX_RECONNECT_ATTEMPTS + 1)]
    ELSE w

\* the settlement of a call: of the one the observer follows, or of a superseded one
Settle(call, latest) ==
    IF latest THEN [call EXCEPT !.cur = FALSE] ELSE [call EXCEPT !.old = @ - 1]

InFlight(call, latest) == IF latest THEN call.cur ELSE call.old > 0

\* the ids the server can give a new request: those nothing holds any more
Fresh ==
    Requests \ ({store.requestId, ui.wsReconnectTimeout.rid, ui.connectTimeout.rid}
                 \cup {ui.sockets[i].rid : i \in SocketIds})

FreshId == CHOOSE r \in Fresh : \A q \in Fresh : r <= q

Init ==
    /\ \E o \in Orders : store = createPayment(InitialStore, o)
    /\ ui = UiInit
    /\ last = NoCall

Render ==
    /\ ui.mounted /\ ui.dirty
    /\ Calls(render(World).u.cancel) <= MaxCancel
    /\ Step(render(World))

\* the payment screen is on top, rendered and not about to leave: it takes a press
OnScreen == ui.mounted /\ ~ui.dirty /\ ui.route = "payment" /\ ui.nav = "none"

\* The router carries out the request.  replace puts the target in place of
\* the screen on top.  push("/products") shows the catalog: the router either
\* returns to the catalog beneath, taking the payment screen off the stack,
\* or puts a new catalog on top and leaves the payment screen mounted (kept).
\* navigate("/payment") shows the payment screen: the one still mounted
\* beneath, or else a new one.
Navigate ==
    /\ ui.nav # "none"
    /\ \E kept \in BOOLEAN :
        /\ kept => (ui.nav = "push" /\ ui.route = "payment")
        /\ LET target == IF ui.nav = "push" THEN "products" ELSE ui.nav
               w0 == [World EXCEPT !.u.route = target, !.u.nav = "none",
                                   !.u.autoRedirectTimer = FALSE]
               w1 == IF ui.route = "payment" /\ ui.mounted /\ ~kept
                     THEN unmount(w0) ELSE w0
           IN  Step(IF target = "complete" THEN mountComplete(w1)
                    ELSE IF target = "payment" /\ ~w1.u.mounted THEN mountPayment(w1)
                    ELSE w1)

\* the back button
PressBack ==
    /\ OnScreen
    /\ ~isSubmitting(ui)
    /\ Step(push(World))

\* the auto-redirect timeout of the completion screen fires
AutoRedirect ==
    /\ ui.route = "complete"
    /\ ui.autoRedirectTimer
    /\ Step(handleGoToMenu(World))

\* the button of the completion screen
TapGoToMenu ==
    /\ ui.route = "complete"
    /\ ui.nav = "none"
    /\ Step(handleGoToMenu(World))

Tick ==
    /\ ui.intervals > 0
    /\ TickWindow(store.timer)
    /\ Step(IF decrementTimer(store) = store THEN World
            ELSE StoreSet(World, decrementTimer(store)))

ConnectTimeout ==
    /\ ui.connectTimeout.pending
    /\ Connects(ui.connectTimeout) => \E i \in SocketIds : ui.sockets[i] = NoSocket
    /\ Step(Automatic(connectWebSocket([World EXCEPT !.u.connectTimeout = NoTimeout],
                                       ui.connectTimeout),
                      ui.connectTimeout))

ReconnectTimeout ==
    /\ ui.wsReconnectTimeout.pending
    /\ Connects(ui.wsReconnectTimeout) => \E i \in SocketIds : ui.sockets[i] = NoSocket
    /\ Step(Automatic(reconnect(World, ui.wsReconnectTimeout), ui.wsReconnectTimeout))

TapReconnect ==
    /\ OnScreen
    /\ ui.wsStatus = "FAILED"
    /\ Connects([rid |-> store.requestId, ws |-> ui.wsStatus]) => \E i \in SocketIds : ui.sockets[i] = NoSocket
    /\ Step(NewRun(handleReconnectWebSocket(World)))

WsOpen ==
    \E i \in SocketIds :
        /\ ui.sockets[i].state = "CONNECTING"
        /\ Step(NewRun(onopen([World EXCEPT !.u.sockets[i].state = "OPEN"])))

\* an open socket delivers a frame, one of frames
Message(frames, recorded) ==
    \E i \in SocketIds, frame \in frames :
        /\ ui.sockets[i].state = "OPEN"
        /\ frame = "EXPIRED" => Calls(ui.cancel) < MaxCancel
        /\ StepAs(onmessage(World, frame),
                  IF ~recorded THEN "none"
                  ELSE IF frame \notin HandledFrames THEN "ignored" ELSE frame)

WsMessage == Message(Frames, FALSE)

\* as WsMessage, the frame being recorded in the history: its status, or that
\* the handler does not act on it
WsFrame == Message(Frames, TRUE)

\* the server pushes COMPLETED
WsCompleted == Message({"COMPLETED"}, FALSE)

\* the connection fails: the error event, then the close event
WsFail ==
    \E i \in SocketIds :
        /\ ui.sockets[i].state # "CLOSED"
        /\ Step(Dropped(onclose(onerror(closed(World, i)),
                                Closure(ui.sockets[i].rid), FALSE)))

\* the connection closes and the close event reports a clean close
WsClose ==
    \E i \in SocketIds :
        /\ ui.sockets[i].state \in {"OPEN", "CLOSING"}
        /\ Step(onclose(closed(World, i), Closure(ui.sockets[i].rid), TRUE))

\* the connection closes and the close event reports no clean close (wasClean
\* is false, or the platform leaves it undefined)
WsUncleanClose ==
    \E i \in SocketIds :
        /\ ui.sockets[i].state \in {"OPEN", "CLOSING"}
        /\ Step(Dropped(onclose(closed(World, i), Closure(ui.sockets[i].rid), FALSE)))

PressCancel ==
    /\ OnScreen
    /\ ~isSubmitting(ui)
    /\ Calls(ui.cancel) < MaxCancel
    /\ Step(handleCancel(World))

\* the cancel call settles, with or without an error
Settlement(recorded) ==
    \E latest \in BOOLEAN, outcome \in CancelOutcomes :
        /\ InFlight(ui.cancel, latest)
        /\ StepAs(cancelCallbacks([World EXCEPT !.u.cancel = Settle(@, latest),
                                                !.u.dirty = @ \/ (latest /\ ui.mounted)],
                                  outcome),
                  IF recorded THEN outcome ELSE "none")

CancelSettled == Settlement(FALSE)

\* as CancelSettled, the outcome being recorded in the history
CancelOutcome == Settlement(TRUE)


\* the creation call succeeds, with one of tokens and an expiry one of diffs ahead
QrResponse(tokens, diffs) ==
    \E latest \in BOOLEAN, token \in tokens, d \in diffs :
        /\ InFlight(ui.qr, latest)
        /\ Fresh # {}
        /\ Step(NewRun(qrSuccess([World EXCEPT !.u.qr = Settle(@, latest),
                                               !.u.dirty = @ \/ (latest /\ ui.mounted)],
                                 FreshId, token, d)))

QrSuccess == QrResponse(Codes, ScreenDiffMs)

\* the creation call succeeds with a token and the whole window ahead
QrBound == QrResponse({"abc"}, {DEFAULT_TIMER * 1000})

\* the creation call succeeds with a token, 2 seconds or the whole window ahead
QrShort == QrResponse({"abc"}, {1999, DEFAULT_TIMER * 1000})

QrError ==
    \E latest \in BOOLEAN, kind \in ErrorKinds :
        /\ InFlight(ui.qr, latest)
        /\ Step([World EXCEPT !.u.qr = Settle(@, latest),
                              !.u.error = IF ui.mounted THEN kind ELSE @,
                              !.u.dirty = @ \/ ui.mounted])

PressMethod ==
    \E method \in Methods :
        /\ OnScreen
        /\ ~isSubmitting(ui)
        /\ ui.selectedMethod # method
        /\ Step(NewRun(handleMethodChange(World, method)))

PressRetry ==
    /\ OnScreen
    /\ ui.selectedMethod = "QR_CODE"
    /\ ~ui.qr.cur
    /\ ui.error = "retry"
    /\ Step(NewRun(handleRetry(World)))

\* The payment session on a network that holds: sockets open, deliver frames
\* and close cleanly.
Next ==
    \/ Render
    \/ Navigate
    \/ Tick
    \/ ConnectTimeout
    \/ WsOpen
    \/ WsMessage
    \/ WsClose
    \/ PressCancel
    \/ CancelSettled
    \/ QrSuccess
    \/ QrError
    \/ PressMethod
    \/ PressRetry

Spec == Init /\ [][Next]_vars

\* The status channel on a network that fails, while the user neither cancels
\* nor lets the countdown run out, the creation calls succeed and the only
\* status the server pushes is COMPLETED.
ChannelNext ==
    \/ Render
    \/ Navigate
    \/ ConnectTimeout
    \/ ReconnectTimeout
    \/ TapReconnect
    \/ WsOpen
    \/ WsCompleted
    \/ WsFail
    \/ WsClose
    \/ WsUncleanClose
    \/ QrBound
    \/ PressMethod

ChannelSpec == Init /\ [][ChannelNext]_vars

\* The payment session and the ways out of it (cancel, completion, the back
\* button, the completion screen), while the creation call succeeds with a
\* token and the user stays with the QR method.
ExitNext ==
    \/ Render
    \/ Navigate
    \/ Tick
    \/ ConnectTimeout
    \/ WsOpen
    \/ WsFrame
    \/ WsClose
    \/ PressCancel
    \/ CancelOutcome
    \/ QrShort
    \/ PressBack
    \/ AutoRedirect
    \/ TapGoToMenu

ExitSpec == Init /\ [][ExitNext]_vars

\* the catalog is on top and not about to leave
OnCatalog == ui.route = "products" /\ ui.nav = "none"

\* a product is put in the cart
AddItem ==
    /\ OnCatalog
    /\ ~ui.cart
    /\ Step([World EXCEPT !.u.cart = TRUE, !.u.items = addItem(@, 1)])

\* the order button of the catalog, disabled while the cart is empty or the
\* call is pending
PressOrder ==
    /\ OnCatalog
    /\ ui.cart /\ ~ui.order
    /\ store.orderId \notin NewOrders
    /\ Step(handlePayment(World))

\* the order creation call succeeds
OrderSuccess ==
    \E o \in NewOrders :
        /\ ui.order
        /\ o > store.orderId
        /\ Step(orderSuccess(World, o))

\* the return-to-catalog button, shown for ORDER_NOT_FOUND and ORDER_NOT_PENDING
PressReturn ==
    /\ OnScreen
    /\ ui.error = "return"
    /\ Step(returnToCatalog(World))

\* the responses to the creation calls are followed up to the last order the
\* catalog places, whose payment screen is shown and left with its call pending
QrFirst == store.orderId \notin NewOrders /\ QrBound

QrFails == store.orderId \notin NewOrders /\ QrError

\* The kiosk over several orders: the payment screen is left by cancel,
\* completion, the return-to-catalog action or the back button, and the
\* catalog places the next order.
CatalogNext ==
    \/ Render
    \/ Navigate
    \/ ConnectTimeout
    \/ WsOpen
    \/ WsCompleted
    \/ WsClose
    \/ PressCancel
    \/ CancelSettled
    \/ QrFirst
    \/ QrFails
    \/ PressReturn
    \/ PressBack
    \/ AutoRedirect
    \/ TapGoToMenu
    \/ AddItem
    \/ PressOrder
    \/ OrderSuccess

CatalogSpec == Init /\ [][CatalogNext]_vars

-----------------------------------------------------------------------------
(* The cart store driven through its operations alone *)

Products == 1..MaxProduct
\* the quantities updateQuantity is called with: the catalog passes 0 and the
\* quantity of a line plus or minus 1
Quantities == (0 - 1)..MaxQuantity

\* the catalog is shown, the cart is empty
CartInit ==
    /\ store = InitialStore
    /\ ui = [UiInit EXCEPT !.mounted = FALSE, !.dirty = FALSE, !.route = "products",
                           !.cart = FALSE, !.items = <<>>]
    /\ last = NoCall

\* the catalog with the cart holding items
withItems(items) == [ui EXCEPT !.items = items, !.cart = (items # <<>>)]

CartAdd ==
    \E id \in Products :
        /\ \A i \in DOMAIN ui.items : ui.items[i].quantity < MaxQuantity
        /\ ui' = withItems(addItem(ui.items, id))
        /\ last' = [op |-> "addItem", arg |-> <<id>>, prev |-> Before(store)]
        /\ UNCHANGED store

CartUpdate ==
    \E id \in Products, quantity \in Quantities :
        /\ ui' = withItems(updateQuantity(ui.items, id, quantity))
        /\ last' = [op |-> "updateQuantity", arg |-> <<id, quantity>>, prev |-> Before(store)]
        /\ UNCHANGED store

CartClear ==
    /\ ui' = withItems(clearCart(World).u.items)
    /\ last' = [op |-> "clearCart", arg |-> <<>>, prev |-> Before(store)]
    /\ UNCHANGED store

CartNext ==
    \/ CartAdd
    \/ CartUpdate
    \/ CartClear

CartSpec == CartInit /\ [][CartNext]_vars

-----------------------------------------------------------------------------
(* The HTTP client *)

\* the calls the catalog and the payment screen make
HttpCalls == {"orders", "payments/qr", "payments/student-id", "orders/cancel",
              "products/available"}

\* the call goes through the api instance, which carries the interceptors; the
\* order creation of the catalog calls axios.post itself
viaApi(call) == call # "orders"

\* the responses: success, unauthorized, another failure
HttpStatuses == {200, 401, 500}

\* useAuthStore signIn
signIn(a, token) ==
    [a EXCEPT !.token = token, !.authenticated = TRUE, !.loading = FALSE, !.error = NULL]

\* useAuthStore signOut
signOut(a) ==
    [a EXCEPT !.token = NULL, !.authenticated = FALSE, !.loading = FALSE, !.error = NULL]

\* the response interceptor of the api instance, on a rejected response
responseInterceptor(w, status) ==
    IF status = 401 THEN [w EXCEPT !.u.auth = signOut(@)] ELSE w

\* a response arrives: what the client does before the caller is told
respond(w, call, status) ==
    LET w1 == [w EXCEPT !.u.http = @ \ {call}]
    IN  IF status = 200 \/ ~viaApi(call) THEN w1 ELSE responseInterceptor(w1, status)

\* what the caller receives
delivered(status) == IF status = 200 THEN "resolved" ELSE "rejected"

\* a screen makes a call; the screens that call are shown to a signed-in kiosk
HttpRequest ==
    \E call \in HttpCalls :
        /\ ui.auth.authenticated
        /\ call \notin ui.http
        /\ ui' = [ui EXCEPT !.http = @ \cup {call}]
        /\ UNCHANGED <<store, last>>

HttpResponse ==
    \E call \in ui.http, status \in HttpStatuses :
        /\ ui' = respond(World, call, status).u
        /\ last' = [op |-> delivered(status), arg |-> <<call, status>>, prev |-> Before(store)]
        /\ UNCHANGED store

\* the kiosk is registered again
SignIn ==
    /\ ~ui.auth.authenticated
    /\ ui' = [ui EXCEPT !.auth = signIn(@, "jwt")]
    /\ UNCHANGED <<store, last>>

HttpNext ==
    \/ HttpRequest
    \/ HttpResponse
    \/ SignIn

HttpSpec == Init /\ [][HttpNext]_vars

\* the characters of the ids the form is tried with
Chars == {"0", "1", "9", "a", " "}

\* the ids: every string of 4 of these characters, and shorter and longer ones
StudentIds ==
    [1..4 -> Chars]
    \cup {<<>>, <<"1">>, <<"1", "2">>, <<"1", "2", "3">>,
          <<"1", "2", "0", "3">>, <<"1", "2", "9", "9">>, <<"0", "2", "0", "3">>,
          <<"1", "3", "0", "0">>, <<"1", "2", "3", "4", "5">>,
          <<"1", "1", "-", "5">>, <<"1", "1", "+", "5">>}

\* handleStudentIdSubmit runs with an id: the handler is driven as it stands,
\* whereas on screen the button is disabled while the id fails validation
SubmitOf(ids) ==
    \E id \in ids :
        /\ OnScreen
        /\ ui.selectedMethod = "STUDENT_ID"
        /\ ~ui.student.cur
        /\ store' = handleStudentIdSubmit(World, id).s
        /\ ui' = handleStudentIdSubmit(World, id).u
        /\ last' = [op |-> "handleStudentIdSubmit", arg |-> <<id>>, prev |-> Before(store)]

Submit == SubmitOf(StudentIds)

\* the student-id call succeeds, with a token and the whole window ahead
StudentSuccess ==
    \E latest \in BOOLEAN :
        /\ InFlight(ui.student, latest)
        /\ Fresh # {}
        /\ Step(NewRun(studentSuccess([World EXCEPT !.u.student = Settle(@, latest),
                                                    !.u.dirty = @ \/ (latest /\ ui.mounted)],
                                      FreshId, "abc", DEFAULT_TIMER * 1000)))

\* The student-id form: the user switches to it and ids are submitted.
FormNext ==
    \/ Render
    \/ QrBound
    \/ PressMethod
    \/ Submit
    \/ StudentSuccess

FormSpec == Init /\ [][FormNext]_vars

\* a well-formed id is submitted
SubmitId == SubmitOf({<<"1", "2", "0", "3">>})

\* a creation call fails
Failure(method, failure, w) ==
    /\ store' = onError(w, failure).s
    /\ ui' = [onError(w, failure).u EXCEPT !.event = "none"]
    /\ last' = [op |-> "onError", arg |-> <<method, failure>>, prev |-> Before(store)]

QrFailure ==
    \E latest \in BOOLEAN, failure \in Failures :
        /\ InFlight(ui.qr, latest)
        /\ Failure("QR_CODE", failure, [World EXCEPT !.u.qr = Settle(@, latest)])

StudentFailure ==
    \E latest \in BOOLEAN, failure \in Failures :
        /\ InFlight(ui.student, latest)
        /\ Failure("STUDENT_ID", failure, [World EXCEPT !.u.student = Settle(@, latest)])

\* the retry button of the student-id form
PressRetryForm ==
    /\ OnScreen
    /\ ui.selectedMethod = "STUDENT_ID"
    /\ ~ui.student.cur
    /\ ui.error = "retry"
    /\ Step(NewRun(handleRetry(World)))

\* The payment screen on a server that fails creation calls.
ErrorNext ==
    \/ Render
    \/ Navigate
    \/ ConnectTimeout
    \/ WsOpen
    \/ WsClose
    \/ QrBound
    \/ QrFailure
    \/ PressMethod
    \/ SubmitId
    \/ StudentFailure
    \/ PressRetry
    \/ PressRetryForm
    \/ PressReturn

ErrorSpec == Init /\ [][ErrorNext]_vars

\* ExitSpec where React renders a screen whose state changed, the router
\* carries out a request, the interval and the auto-redirect timeout fire and
\* a cancel call settles.
LiveSpec ==
    /\ Init
    /\ [][ExitNext]_vars
    /\ WF_vars(Render)
    /\ WF_vars(Navigate)
    /\ WF_vars(Tick)
    /\ WF_vars(AutoRedirect)
    /\ WF_vars(CancelOutcome)

----------------------------------------------------------------------------
(* Properties of the payment screen *)

\* the sockets that are connecting or open
LiveSockets == {i \in SocketIds : ui.sockets[i].state \in {"CONNECTING", "OPEN"}}

\* C2: at most one terminal outcome is applied per payment request: once
\* status is COMPLETED, FAILED or EXPIRED, no later event (push, tick, cancel,
\* settlement of a cancel call) makes it a different terminal value.
C2_OneTerminalOutcome ==
    [][ ( /\ store.status \in Terminal
          /\ store'.status \in Terminal
          /\ store'.requestId = store.requestId
          /\ store'.orderId = store.orderId )
        => store'.status = store.status ]_vars

\* C4: for a fixed requestId, after abnormal closes with no successful open in
\* between, the screen starts at most 3 connection attempts by itself; a 4th
\* is started only by the user's tap.
C4_ReconnectCeiling ==
    ui.reconnects <= MAX_RECONNECT_ATTEMPTS

\* C5: the cancel call the countdown triggers at zero is issued once per
\* payment session, never a second time.
C5_CountdownCancelsOnce ==
    ui.countdownCancels <= 1

\* C6: once requestId is cleared and the screen has rendered that, wsStatus is
\* DISCONNECTED, no socket is connecting or open and no reconnect timer is
\* pending, also after the close event of the closed socket arrived.
C6_TeardownIsFinal ==
    (ui.mounted /\ ~ui.dirty /\ store.requestId = 0)
    => /\ ui.wsStatus = "DISCONNECTED"
       /\ LiveSockets = {}
       /\ ~ui.wsReconnectTimeout.pending

\* C7: at any time at most one socket the payment screen created is
\* connecting or open.
C7_OneLiveSocket ==
    Cardinality(LiveSockets) <= 1

\* C7 witness: the reconnect timer has run, and connectWebSocket closed the
\* socket of the session's request that was not closed and created another
C7_Witness ==
    /\ ui.mounted
    /\ store.requestId # 0
    /\ ui.wsReconnectAttempts >= 1
    /\ \E i, j \in SocketIds :
          /\ ui.sockets[i] = [state |-> "CLOSING", rid |-> store.requestId]
          /\ ui.sockets[j] = [state |-> "CONNECTING", rid |-> store.requestId]
          /\ ui.webSocket = j

\* C11: whenever a cancel call settles, whether the server accepted it, the
\* call failed or it was skipped for want of an orderId, the teardown has run:
\* the session is inactive, the cart is empty and the catalog is requested.
C11_SettlementTearsDown ==
    ui.event \in CancelOutcomes
    => /\ ~store.isActive
       /\ ~ui.cart
       /\ ui.nav = "products"

\* C11 witness: a cancel call has failed and the teardown has run
C11_Witness ==
    /\ ui.event = "error"
    /\ ~store.isActive
    /\ ~ui.cart
    /\ ui.nav = "products"

\* the session with everything absent
AllAbsent(s) ==
    /\ s.orderId = 0
    /\ s.requestId = 0
    /\ s.requestCode = NULL
    /\ s.requestMethod = NULL
    /\ s.expiresAt = NULL
    /\ s.status = NULL
    /\ ~s.isActive

\* C12: once the catalog is shown again, after a cancellation or after the
\* back button, the payment session is all absent: orderId, requestId,
\* requestCode, requestMethod, expiresAt and status are null, isActive false.
C12_CatalogFindsNoSession ==
    ui.route = "products" => AllAbsent(store)

\* C13: after a COMPLETED push the session is eventually fully cleared and
\* the cart empty: the screen hands off to the completion screen, which calls
\* resetPayment and clearCart on the tap or when its timeout fires.
C13_CompletionClearsSession ==
    (store.status = "COMPLETED") ~> (AllAbsent(store) /\ ~ui.cart)

\* C14: on cold start no screen reads a persisted session that is inactive,
\* not PENDING or out of time: what a screen reads is the empty session or a
\* session that is active, PENDING and has time left; and a session that is
\* active, PENDING and has time left is kept, no reset being set for it.
C14_StaleSessionNeverRead ==
    /\ last.op = "read"
       => \/ last.prev = Before(InitialStore)
          \/ (last.prev.isActive /\ last.prev.status = "PENDING" /\ last.prev.timer > 0)
    /\ last.op = "rehydrate" => (ui.rehydrateTimeout <=> Stale(store))

\* exactly 4 decimal digits: grade 1..9, room 1..9, number 01..99
WellFormedId(id) ==
    /\ Len(id) = 4
    /\ \A k \in 1..4 : IsDigit(id[k])
    /\ DigitValue(id[1]) \in 1..9
    /\ DigitValue(id[2]) \in 1..9
    /\ DigitValue(id[3]) * 10 + DigitValue(id[4]) \in 1..99

\* C15: validateStudentId accepts a string if and only if it is exactly 4
\* decimal digits with grade in 1..9, room in 1..9 and number in 01..99; a
\* string of 4 characters holding a non-digit is rejected.
C15_ValidIffWellFormed ==
    last.op = "handleStudentIdSubmit"
    => (validateStudentId(last.arg[1]) <=> WellFormedId(last.arg[1]))

\* C16: a submission of a student id that fails validation issues no
\* student-id call and leaves the session and the screen as they were.
C16_InvalidIdChangesNothing ==
    [][ ( /\ last' # last
          /\ last'.op = "handleStudentIdSubmit"
          /\ ~validateStudentId(last'.arg[1]) )
        => (store' = store /\ ui' = ui) ]_vars

\* C16 witness: an id of 4 characters that fails validation was submitted
\* while a payment was open, and no student-id call is in flight
C16_Witness ==
    /\ last.op = "handleStudentIdSubmit"
    /\ Len(last.arg[1]) = 4
    /\ ~validateStudentId(last.arg[1])
    /\ store.orderId # 0
    /\ store.isActive
    /\ Calls(ui.student) = 0

\* C17: while the session holds a bound QR request, no step issues a QR
\* creation call, whatever the successful response was that bound it.
C17_NoSecondQrRequest ==
    [][ (store.requestId # 0 /\ store.requestMethod = "QR_CODE")
        => Calls(ui'.qr) <= Calls(ui.qr) ]_vars

\* C18: while the payment screen is mounted and the session is active with
\* the countdown running, the session eventually becomes inactive (or the
\* screen is left), also when the status channel never delivers an event:
\* the countdown reaches 0, the cancel call goes out and its settlement ends
\* the session.
C18_CountdownEndsSession ==
    (ui.mounted /\ store.isActive /\ TickWindow(store.timer))
    ~> (~store.isActive \/ ~ui.mounted)

\* C18 witness: no socket was ever connected, the countdown reached 0 on the
\* mounted screen, its effect issued the cancel call and the settlement of
\* that call has ended the session
C18_Witness ==
    /\ ui.mounted
    /\ ui.wsStatus = "DISCONNECTED"
    /\ ui.webSocket = 0
    /\ store.timer = 0
    /\ ui.countdownCancels >= 1
    /\ ui.event \in CancelOutcomes
    /\ ~store.isActive
    /\ store.status = "EXPIRED"

\* C19: once the payment screen has been left (cancel, completion, return to
\* the catalog, back button) its countdown interval and reconnect timer are
\* cleared and its socket is closed: no interval is running, no reconnect
\* timer is pending and no socket of the screen is connecting or open.
C19_ExitReleasesAll ==
    ~ui.mounted
    => /\ ~ui.timerInterval
       /\ ~ui.wsReconnectTimeout.pending
       /\ LiveSockets = {}

\* C20: a received frame that is not parseable JSON, or whose status is
\* PENDING or any value other than COMPLETED, FAILED or EXPIRED, leaves the
\* payment session, wsStatus and the reconnect counter unchanged and triggers
\* no cancel call.
C20_IgnoredFrameChangesNothing ==
    [][ ui'.event = "ignored"
        => /\ store' = store
           /\ ui'.wsStatus = ui.wsStatus
           /\ ui'.wsReconnectAttempts = ui.wsReconnectAttempts
           /\ ui'.cancel = ui.cancel ]_vars

\* C20 witness: an open socket has just delivered such a frame to a pending,
\* active session
C20_Witness ==
    /\ ui.event = "ignored"
    /\ \E i \in SocketIds : ui.sockets[i].state = "OPEN"
    /\ ui.wsStatus = "CONNECTED"
    /\ store.status = "PENDING"
    /\ store.isActive

\* C21: createPayment is never invoked for a new order while a session for a
\* different order is still active: whenever orderId changes from one order
\* to another, the session it replaces is inactive.
C21_NoOrderOverActiveSession ==
    [][ (store.orderId # 0 /\ store'.orderId # 0 /\ store'.orderId # store.orderId)
        => ~store.isActive ]_vars

\* C22: whenever the payment session reaches a terminal outcome (COMPLETED,
\* FAILED or EXPIRED, by push, by countdown or by cancel), the cart is cleared
\* as a consequence: from a terminal status the cart eventually is empty.
C22_TerminalClearsCart ==
    (store.status \in Terminal) ~> ~ui.cart

\* C23: a 401 response to any HTTP call of the client (order creation,
\* payment-request creation, order cancel, catalog fetch) triggers signOut,
\* leaving token = null and authenticated = false, and the error is still
\* delivered to the caller.
C23_UnauthorizedSignsOut ==
    [][ (ui'.http # ui.http /\ ui'.http \subseteq ui.http /\ last'.arg[2] = 401)
        => /\ ui'.auth.token = NULL
           /\ ~ui'.auth.authenticated
           /\ last'.op = "rejected" ]_vars

\* C24: every failed payment-request creation (QR or student id) leaves the
\* screen with a message and a recovery action determined by the error code:
\* return-to-catalog for ORDER_NOT_FOUND and ORDER_NOT_PENDING, retry for
\* every other failure, including those that carry no server error code.
C24_FailureHasRecovery ==
    (last.op = "onError" /\ ui.mounted /\ ui.error # "none")
    => ui.error = IF last.arg[2].code \in {"ORDER_NOT_FOUND", "ORDER_NOT_PENDING"}
                  THEN "return" ELSE "retry"

\* C25: from any store state, createPayment(o) yields exactly orderId = o,
\* isActive = true, status = PENDING, timer = 900 and requestId, requestCode,
\* requestMethod, expiresAt all null.
C25_CreateYieldsFreshSession ==
    last.op = "createPayment"
    => store = [orderId |-> last.arg[1], isActive |-> TRUE, status |-> "PENDING",
                timer |-> 900, requestId |-> 0, requestCode |-> NULL,
                requestMethod |-> NULL, expiresAt |-> NULL]

\* C25 witness: createPayment ran over a session that had ended with less
\* time left, and the window is whole again
C25_Witness ==
    /\ last.op = "createPayment"
    /\ last.prev.status \in Terminal
    /\ last.prev.timer < 900
    /\ store.timer = 900
    /\ store.requestId = 0
    /\ store.isActive

\* C26: from any reachable store state, resetPayment yields exactly the
\* store's initial state (all identifiers and status null, isActive false,
\* timer 900), and a second resetPayment gives the same state as the first.
C26_ResetYieldsInitial ==
    last.op = "resetPayment"
    => /\ store = [orderId |-> 0, requestId |-> 0, requestCode |-> NULL,
                   requestMethod |-> NULL, expiresAt |-> NULL, timer |-> 900,
                   isActive |-> FALSE, status |-> NULL]
       /\ store = InitialStore
       /\ resetPayment(store) = store

\* C26 witness: resetPayment ran on an active session with time used up
C26_Witness ==
    /\ last.op = "resetPayment"
    /\ last.prev.isActive
    /\ last.prev.timer < 900
    /\ store.timer = 900
    /\ store.orderId = 0
    /\ ~store.isActive

\* C27: resetPaymentRequest leaves orderId and timer unchanged, sets
\* requestId, requestCode, requestMethod and expiresAt to null, and sets
\* status = PENDING and isActive = true whatever the previous status was.
C27_ResetRequestFrame ==
    [][ last'.op = "resetPaymentRequest"
        => /\ store'.orderId = store.orderId
           /\ store'.timer = store.timer
           /\ store'.requestId = 0
           /\ store'.requestCode = NULL
           /\ store'.requestMethod = NULL
           /\ store'.expiresAt = NULL
           /\ store'.status = "PENDING"
           /\ store'.isActive ]_vars

\* C27 witness: resetPaymentRequest ran on a terminal session of an order with
\* part of the window used, and the timer is where it was
C27_Witness ==
    /\ last.op = "resetPaymentRequest"
    /\ last.prev.status \in Terminal
    /\ last.prev.timer \in 1..899
    /\ store.timer = last.prev.timer
    /\ store.orderId # 0
    /\ store.requestId = 0
    /\ store.status = "PENDING"

\* C28: between one createPayment and the next createPayment or
\* resetPayment the timer never increases: no setPaymentRequest, setStatus,
\* decrementTimer, resetPaymentRequest or cancelPayment raises it.
C28_WindowNeverExtends ==
    [][ last'.op \notin {"createPayment", "resetPayment"}
        => store'.timer <= store.timer ]_vars

\* C28 witness: a request whose own expiry lies 30 minutes ahead was bound to
\* a session with part of its window used, and the timer stayed
C28_Witness ==
    /\ last.op = "setPaymentRequest"
    /\ last.arg = <<"t", 1800000>>
    /\ last.prev.timer \in 1..899
    /\ store.timer = last.prev.timer

\* C29: each abnormal socket close below the retry ceiling leads to exactly
\* one new connection attempt, made by the reconnect timer it scheduled, with
\* the attempt counter incremented by 1; no other path starts an attempt for
\* the same close.  Hence while that timer is pending and the user has not
\* tapped, no step creates a socket and none changes the counter.
C29_OnlyTheTimerReconnects ==
    [][ (ui.wsReconnectTimeout.pending /\ ui'.wsReconnectTimeout.pending /\ ui'.dropped)
        => /\ {i \in SocketIds : ui'.sockets[i].state \in {"CONNECTING", "OPEN"}}
                \subseteq LiveSockets
           /\ ui'.wsReconnectAttempts = ui.wsReconnectAttempts ]_vars

\* C30: the delay of the automatic reconnect scheduled when the attempt
\* counter is a equals min(3000 * (a + 1), 10000) milliseconds; over
\* consecutive failed attempts the delays are non-decreasing and never
\* exceed 10000.
C30_ReconnectDelay ==
    [][ (ui'.wsReconnectTimeout.pending /\ ui'.wsReconnectTimeout # ui.wsReconnectTimeout)
        => /\ ui'.wsReconnectTimeout.delay = Min(3000 * (ui.wsReconnectAttempts + 1), 10000)
           /\ ui'.wsReconnectAttempts = ui.wsReconnectAttempts
           /\ ui'.wsReconnectTimeout.delay <= 10000
           /\ \A a \in 0..MAX_RECONNECT_ATTEMPTS :
                /\ reconnectDelay(a) = Min(3000 * (a + 1), 10000)
                /\ reconnectDelay(a) <= reconnectDelay(a + 1)
                /\ reconnectDelay(a + 1) <= 10000 ]_vars

\* C30 witness: the third failure in a row has scheduled its reconnect, the
\* counter being 2
C30_Witness ==
    /\ ui.wsReconnectTimeout.pending
    /\ ui.wsReconnectAttempts = 2
    /\ ui.wsReconnectTimeout.delay = 9000
    /\ ui.dropped

\* C31: when a socket of the mounted screen opens, wsStatus becomes CONNECTED
\* and the reconnect-attempt counter is 0; the counter never exceeds 3 in any
\* reachable state.
C31_OpenResetsCounter ==
    /\ [][ (ui.mounted /\ \E i \in SocketIds : /\ ui.sockets[i].state = "CONNECTING"
                                              /\ ui'.sockets[i].state = "OPEN")
            => (ui'.wsStatus = "CONNECTED" /\ ui'.wsReconnectAttempts = 0) ]_vars
    /\ [](ui.wsReconnectAttempts <= 3)

\* C31 witness: the socket the screen holds is open, the screen shows CONNECTED
\* and the counter is 0
C31_Witness ==
    /\ ui.mounted
    /\ ui.webSocket # 0
    /\ ui.sockets[ui.webSocket].state = "OPEN"
    /\ ui.wsStatus = "CONNECTED"
    /\ ui.wsReconnectAttempts = 0
    /\ store.requestId # 0

\* C32: wsStatus follows the channel state machine: CONNECTING is entered
\* only from DISCONNECTED (or from FAILED by a user tap), CONNECTED is entered
\* only from CONNECTING, and a connection attempt (a socket is created) is
\* started only when requestId is set and wsStatus is neither CONNECTING nor
\* CONNECTED.  A tap is the step that resets the counter and begins a new run.
C32_ChannelStateMachine ==
    [][ /\ (ui'.wsStatus = "CONNECTING" /\ ui.wsStatus # "CONNECTING")
            => \/ ui.wsStatus = "DISCONNECTED"
               \/ /\ ui.wsStatus = "FAILED"
                  /\ ui'.wsReconnectAttempts = 0 /\ ui'.reconnects = 0 /\ ~ui'.dropped
        /\ (ui'.wsStatus = "CONNECTED" /\ ui.wsStatus # "CONNECTED")
            => ui.wsStatus = "CONNECTING"
        /\ (\E i \in SocketIds : ui.sockets[i] = NoSocket /\ ui'.sockets[i].state = "CONNECTING")
            => (store.requestId # 0 /\ ui.wsStatus \notin {"CONNECTING", "CONNECTED"}) ]_vars

\* C33: every EXPIRED push received on the channel sets status = EXPIRED and
\* isActive = false and triggers the cancel-order call, and the settlement of
\* that call clears the cart and returns to the catalog.
C33_ExpiredPushCancels ==
    /\ [][ (ui'.event = "EXPIRED" /\ ui' # ui)
            => /\ store'.status = "EXPIRED"
               /\ ~store'.isActive
               /\ Calls(ui'.cancel) = Calls(ui.cancel) + 1 ]_vars
    /\ (ui.event = "EXPIRED") ~> (~ui.cart /\ ui.route = "products")

\* C33 witness: an EXPIRED push has just been handled: the session is EXPIRED
\* and inactive and the cancel call is in flight, the cart still full
C33_Witness ==
    /\ ui.event = "EXPIRED"
    /\ store.status = "EXPIRED"
    /\ ~store.isActive
    /\ ui.cancel.cur
    /\ ui.cart
    /\ ui.route = "payment"

\* C34: while the payment screen is mounted at most one countdown interval
\* exists, and once the screen has rendered the state one exists exactly when
\* isActive is true and timer > 0: when isActive has become false or the timer
\* has reached 0 the interval is cleared, so decrementTimer, which only an
\* interval calls, is not called again.
C34_OneCountdownInterval ==
    /\ ui.mounted => ui.intervals <= 1
    /\ (ui.mounted /\ ~ui.dirty)
        => (ui.intervals = 1 <=> (store.isActive /\ store.timer > 0))

\* C34 witness: the countdown ran down to 0 on the mounted screen, the cancel
\* call it led to has settled, and the screen has rendered that with no
\* interval left
C34_Witness ==
    /\ ui.mounted /\ ~ui.dirty
    /\ store.timer = 0
    /\ ~store.isActive
    /\ ui.countdownCancels >= 1
    /\ ui.intervals = 0
    /\ ~ui.timerInterval

\* C35: after a QR payment-request creation call fails, no further QR
\* creation call is issued until the user presses retry or switches the
\* method (either clears the error): while the error of a failed QR call
\* stands, no step issues a QR creation call.
C35_NoCallWhileErrorStands ==
    [][ (last.op = "onError" /\ last.arg[1] = "QR_CODE" /\ ui.error # "none")
        => Calls(ui'.qr) <= Calls(ui.qr) ]_vars

\* C36: a payment-request creation response that arrives after the session
\* has become terminal or been torn down does not bind a request to the
\* session and does not make it active again: a step that settles a creation
\* call on a terminal session leaves requestId as it was and isActive false.
C36_LateResponseBindsNothing ==
    [][ ( /\ store.status \in Terminal
          /\ \/ Calls(ui'.qr) < Calls(ui.qr)
             \/ Calls(ui'.student) < Calls(ui.student) )
        => (store'.requestId = store.requestId /\ ~store'.isActive) ]_vars

\* C37: whenever the mounted screen's wsStatus is CONNECTED, the socket
\* created last (webSocketRef.current) is open and addressed to the session's
\* current requestId; and the events of a superseded socket (open, error,
\* close) never change wsStatus or schedule a reconnect.
C37_ConnectedMeansOpen ==
    /\ [](( ui.mounted /\ ui.wsStatus = "CONNECTED")
           => /\ ui.webSocket # 0
              /\ ui.sockets[ui.webSocket].state = "OPEN"
              /\ ui.sockets[ui.webSocket].rid = store.requestId)
    /\ [][ (\E i \in SocketIds : /\ i # ui.webSocket
                                  /\ ui.sockets[i] # NoSocket
                                  /\ ui'.sockets[i] # ui.sockets[i]
                                  /\ ui'.webSocket = ui.webSocket)
            => /\ ui'.wsStatus = ui.wsStatus
               /\ ui'.wsReconnectTimeout = ui.wsReconnectTimeout ]_vars

\* C38: after any sequence of addItem, updateQuantity and clearCart the cart
\* holds at most one line per product id and every line has a quantity of at
\* least 1; addItem of a product that has a line adds 1 to that line and
\* appends nothing, updateQuantity with a quantity of 0 or less removes the
\* line and leaves the others, and updateQuantity of a product without a line
\* changes nothing.
C38_CartLines ==
    /\ [](/\ \A i, j \in DOMAIN ui.items : i # j => ui.items[i].id # ui.items[j].id
          /\ \A i \in DOMAIN ui.items : ui.items[i].quantity >= 1)
    /\ [][/\ (/\ last'.op = "addItem"
              /\ ui'.items # ui.items
              /\ \E i \in DOMAIN ui.items : ui.items[i].id = last'.arg[1])
             => /\ Len(ui'.items) = Len(ui.items)
                /\ \A i \in DOMAIN ui.items :
                     /\ ui'.items[i].id = ui.items[i].id
                     /\ ui'.items[i].quantity =
                          ui.items[i].quantity
                            + (IF ui.items[i].id = last'.arg[1] THEN 1 ELSE 0)
          /\ (last'.op = "updateQuantity" /\ last'.arg[2] <= 0)
             => ui'.items = SelectSeq(ui.items, LAMBDA line : line.id # last'.arg[1])
          /\ (/\ last'.op = "updateQuantity"
              /\ \A i \in DOMAIN ui.items : ui.items[i].id # last'.arg[1])
             => ui'.items = ui.items
         ]_vars

\* addItem of a product that had a line: the line counts 2 or more beside
\* another line
C38_Witness ==
    /\ last.op = "addItem"
    /\ Len(ui.items) >= 2
    /\ \E i \in DOMAIN ui.items :
         ui.items[i].id = last.arg[1] /\ ui.items[i].quantity >= 2

====
